---- MODULE Spec2Model ----
(***************************************************************************)
(* A model of two subsystems of mmtk-core:                                 *)
(*   - the generational plan coordinator Gen                               *)
(*     (src/plan/generational/global.rs), and                              *)
(*   - the Immix block descriptor, its state codec, the block sweeper and  *)
(*     the reusable block list (src/policy/immix/block.rs).                *)
(* The specifications share the variables: SpecGen drives the coordinator,  *)
(* SpecCodec the BlockState byte codec, SpecBlock the block lifecycle and   *)
(* the sweeper, SpecDefragByte the accessors of the defrag/holes byte,      *)
(* SpecBlockApi every operation of Block in any order, SpecList the         *)
(* reusable block list used by several threads, and SpecSweepers the        *)
(* workers that sweep the blocks of a space a statement at a time.          *)
(***************************************************************************)
EXTENDS Integers, Sequences, FiniteSets, TLC

VARIABLES
    \* ---- build configuration and options (fixed after construction)
    full_nursery_gc,            \* crate::plan::generational::FULL_NURSERY_GC
    full_heap_system_gc,        \* common.base.options.full_heap_system_gc
    max_nursery,                \* common.base.options.max_nursery (bytes)
    \* ---- Gen and the base plan
    gc_full_heap,               \* Gen::gc_full_heap
    next_gc_full_heap,          \* Gen::next_gc_full_heap
    user_triggered_collection,  \* common.base.user_triggered_collection
    cur_collection_attempts,    \* common.base.cur_collection_attempts
    nursery_reserved,           \* nursery.reserved_pages()
    phase,                      \* position of the collection cycle
    delegated,                  \* calls the last operation made into its collaborators
    \* ---- observation of the last operation
    call,                       \* the last operation and its arguments
    ret,                        \* its boolean result
    ret_obj,                    \* the object reference a trace operation returned
    last_request_ret,           \* result of the most recent request_full_heap_collection
    cr_latched,                 \* next_gc_full_heap was last written by collection_required
    prepare_full_heap,          \* full_heap handed to common.prepare in this cycle
    \* ---- Immix blocks
    block_only,                 \* super::BLOCK_ONLY of the build
    debug_assertions,           \* cfg!(debug_assertions) of the build
    mark_table,                 \* Block::MARK_TABLE: the state byte of each block
    defrag_table,               \* Block::DEFRAG_STATE_TABLE: the defrag/holes byte
    line_marks,                 \* Line::MARK_TABLE: the mark byte of each line of a block
    reusable_blocks,            \* space.reusable_blocks: the queue of the BlockList
    mark_histogram,             \* the caller's histogram handed to sweep
    in_page_resource,           \* the block's pages are with the page resource
    aborted,                    \* a panic has ended the process
    sweeps,                     \* number of sweeps so far
    ret_state,                  \* the BlockState get_state returned
    set_arg,                    \* per block, the state last handed to set_state
    \* ---- the BlockList
    list_lock,                  \* the thread holding the MutexGuard of the queue
    list_pc,                    \* per thread, its position in a BlockList operation
    sweep_pc,                   \* per worker, its position in Block::sweep and its locals
    list_log,                   \* the pushes, pops and resets completed so far
    ret_val                     \* the usize or Option<Block> the last operation returned

genVars == <<full_nursery_gc, full_heap_system_gc, max_nursery, gc_full_heap,
             next_gc_full_heap, user_triggered_collection, cur_collection_attempts,
             nursery_reserved, phase, delegated, last_request_ret, cr_latched,
             prepare_full_heap>>

obsVars == <<call, ret, ret_obj, ret_state, set_arg>>

blockVars == <<block_only, debug_assertions, mark_table, defrag_table, line_marks, reusable_blocks,
               mark_histogram, in_page_resource, aborted, sweeps>>

listVars == <<list_lock, list_pc, sweep_pc, list_log, ret_val>>

vars == <<genVars, obsVars, blockVars, listVars>>

\* ------------------------------------------------------------------ bounds
\* Largest value the model gives cur_collection_attempts.
MaxAttempts == 2
\* Largest number of pages the model lets the nursery reserve.
MaxNurseryReserved == 3

\* Largest number of sweeps in one behaviour.
MaxSweeps == 2

\* Largest number of pushes, pops and resets of the block list in one behaviour.
MaxListOps == 4

\* ------------------------------------------------------------------ inputs
\* total_pages and reserved_pages handed to request_full_heap_collection.
TotalPages == {100, 1000}
ReservedPages == {99, 100, 400}
\* options.max_nursery in bytes: a whole number of pages, and one byte more.
MaxNurseryBytes == {8192, 8193}
\* The space an object lies in, or that triggered a collection check.
Spaces == {"nursery", "los", "mature", "immortal"}

\* ------------------------------------------------------------------ helpers
BYTES_IN_PAGE == 4096

\* conversions::bytes_to_pages_up: the number of pages that hold `bytes`.
bytes_to_pages_up(bytes) == (bytes + BYTES_IN_PAGE - 1) \div BYTES_IN_PAGE

NoCall == [op |-> "none", space_full |-> FALSE, space |-> "none", base |-> FALSE,
           total |-> 0, reserved |-> 0, arg |-> FALSE]

NoObj == [space |-> "none", via |-> "none"]

\* ------------------------------------------------------------------ Immix constants
\* Block::LOG_BYTES
LOG_BYTES == 15
\* Line::LOG_BYTES
LINE_LOG_BYTES == 8
\* Block::LINES
LINES == 2 ^ (LOG_BYTES - LINE_LOG_BYTES)
\* u8::MAX
U8_MAX == 255
\* BlockState::MARK_UNALLOCATED, MARK_UNMARKED, MARK_MARKED
MARK_UNALLOCATED == 0
MARK_UNMARKED == U8_MAX
MARK_MARKED == U8_MAX - 1

\* The blocks of the space.
Blocks == {"b1"}

\* enum BlockState; unavailable_lines is 0 in every state other than Reusable.
Unallocated == [kind |-> "Unallocated", unavailable_lines |-> 0]
Unmarked == [kind |-> "Unmarked", unavailable_lines |-> 0]
Marked == [kind |-> "Marked", unavailable_lines |-> 0]
Reusable(k) == [kind |-> "Reusable", unavailable_lines |-> k]

NoState == [kind |-> "none", unavailable_lines |-> 0]

\* The threads that use the reusable block list.
Threads == {"t1", "t2"}

\* A worker outside Block::sweep: no block in hand, its histogram empty, no
\* block swept yet.
NotSweeping == [at |-> "idle", block |-> "none", marked_lines |-> 0, holes |-> 0,
                step |-> 0, histogram |-> [h \in 0..LINES |-> 0], swept |-> {}]

\* A thread outside every BlockList operation.
Idle == [at |-> "idle", op |-> "none", block |-> "none", len |-> 0, view |-> <<>>]

\* No usize or Option<Block> returned yet.
NoVal == [kind |-> "none", n |-> 0, block |-> "none"]

\* ------------------------------------------------------------------ Gen
\* IsFullHeap with the heuristic comparing strictly.
IsFullHeapStrict(total_pages, reserved_pages) ==
    IF full_nursery_gc THEN TRUE
    ELSE IF user_triggered_collection /\ full_heap_system_gc THEN TRUE
    ELSE IF next_gc_full_heap \/ cur_collection_attempts > 1 THEN TRUE
    ELSE total_pages < reserved_pages

\* IsFullHeap without the test of the latch next_gc_full_heap.
IsFullHeapNoLatch(total_pages, reserved_pages) ==
    IF full_nursery_gc THEN TRUE
    ELSE IF user_triggered_collection /\ full_heap_system_gc THEN TRUE
    ELSE IF cur_collection_attempts > 1 THEN TRUE
    ELSE total_pages <= reserved_pages

\* The value decided by request_full_heap_collection (global.rs 132-156).
IsFullHeap(total_pages, reserved_pages) ==
    IF full_nursery_gc THEN TRUE
    ELSE IF user_triggered_collection /\ full_heap_system_gc THEN TRUE
    ELSE IF next_gc_full_heap \/ cur_collection_attempts > 1 THEN TRUE
    ELSE total_pages <= reserved_pages

\* is_current_gc_nursery without the negation.
is_current_gc_nursery_unnegated == gc_full_heap

\* Gen::is_current_gc_nursery
is_current_gc_nursery == ~gc_full_heap

\* nursery_full comparing strictly.
NurseryFullStrict == nursery_reserved > bytes_to_pages_up(max_nursery)

\* nursery_full of Gen::collection_required
NurseryFull == nursery_reserved >= bytes_to_pages_up(max_nursery)

\* The latch written only when the large-object space is full.
LatchOnlyForLos(space_full, space) ==
    IF NurseryFull THEN next_gc_full_heap
    ELSE IF space_full /\ space = "los" THEN TRUE
    ELSE next_gc_full_heap

\* The value next_gc_full_heap holds when collection_required returns.
LatchAfterCollectionRequired(space_full, space) ==
    IF NurseryFull THEN next_gc_full_heap
    ELSE IF space_full /\ space # "nursery" THEN TRUE
    ELSE next_gc_full_heap

\* CopySpace::release of the nursery: its pages go back to the page resource.
NurseryReservedAfterRelease == 0

InitGen ==
    /\ full_nursery_gc \in BOOLEAN
    /\ full_heap_system_gc \in BOOLEAN
    /\ max_nursery \in MaxNurseryBytes
    /\ gc_full_heap = FALSE
    /\ next_gc_full_heap = FALSE
    /\ user_triggered_collection = FALSE
    /\ cur_collection_attempts = 0
    /\ nursery_reserved = 0
    /\ phase = "mutator"
    /\ delegated = <<>>
    /\ last_request_ret = FALSE
    /\ cr_latched = FALSE
    /\ prepare_full_heap = FALSE
    /\ call = NoCall
    /\ ret = FALSE
    /\ ret_obj = NoObj
    /\ ret_state = NoState
    /\ set_arg = [b \in Blocks |-> NoState]
    /\ block_only = TRUE
    /\ debug_assertions = FALSE
    /\ mark_table = [b \in Blocks |-> 0]
    /\ defrag_table = [b \in Blocks |-> 0]
    /\ line_marks = [b \in Blocks |-> [i \in 1..LINES |-> 0]]
    /\ reusable_blocks = <<>>
    /\ mark_histogram = [h \in 0..LINES |-> 0]
    /\ in_page_resource = [b \in Blocks |-> TRUE]
    /\ aborted = FALSE
    /\ sweeps = 0
    /\ list_lock = "none"
    /\ list_pc = [t \in Threads |-> Idle]
    /\ sweep_pc = [t \in Threads |-> NotSweeping]
    /\ list_log = <<>>
    /\ ret_val = NoVal

config == <<full_nursery_gc, full_heap_system_gc, max_nursery>>

\* Gen::collection_required, on a mutator's slow-path allocation.
CollectionRequired(space_full, space, base) ==
    /\ phase = "mutator"
    /\ next_gc_full_heap' = LatchAfterCollectionRequired(space_full, space)
    /\ cr_latched' = IF ~NurseryFull /\ space_full /\ space # "nursery"
                       THEN TRUE ELSE cr_latched
    /\ ret' = IF NurseryFull THEN TRUE ELSE base
    /\ delegated' = IF NurseryFull THEN <<>>
                    ELSE <<[fn |-> "common.base.collection_required",
                            flag |-> space_full]>>
    /\ call' = [NoCall EXCEPT !.op = "collection_required",
                              !.space_full = space_full,
                              !.space = space, !.base = base]
    /\ ret_obj' = NoObj
    /\ UNCHANGED <<blockVars, listVars, ret_state, set_arg, config,
                   prepare_full_heap, gc_full_heap, user_triggered_collection,
                   cur_collection_attempts, nursery_reserved, phase,
                   last_request_ret>>

\* request_full_heap_collection consuming the latch it reads.
RequestFullHeapCollectionConsumingLatch(total_pages, reserved_pages) ==
    /\ phase = "mutator"
    /\ gc_full_heap' = IsFullHeap(total_pages, reserved_pages)
    /\ ret' = IsFullHeap(total_pages, reserved_pages)
    /\ last_request_ret' = IsFullHeap(total_pages, reserved_pages)
    /\ next_gc_full_heap' = FALSE
    /\ phase' = "requested"
    /\ delegated' = <<>>
    /\ call' = [NoCall EXCEPT !.op = "request_full_heap_collection",
                              !.total = total_pages, !.reserved = reserved_pages]
    /\ ret_obj' = NoObj
    /\ UNCHANGED <<blockVars, listVars, ret_state, set_arg, config,
                   prepare_full_heap, user_triggered_collection,
                   cur_collection_attempts, nursery_reserved, cr_latched>>

\* Gen::request_full_heap_collection, by the coordinator worker that starts a GC.
RequestFullHeapCollection(total_pages, reserved_pages) ==
    /\ phase = "mutator"
    /\ gc_full_heap' = IsFullHeap(total_pages, reserved_pages)
    /\ ret' = IsFullHeap(total_pages, reserved_pages)
    /\ last_request_ret' = IsFullHeap(total_pages, reserved_pages)
    /\ phase' = "requested"
    /\ delegated' = <<>>
    /\ call' = [NoCall EXCEPT !.op = "request_full_heap_collection",
                              !.total = total_pages, !.reserved = reserved_pages]
    /\ ret_obj' = NoObj
    /\ UNCHANGED <<blockVars, listVars, ret_state, set_arg, config,
                   prepare_full_heap, next_gc_full_heap, user_triggered_collection,
                   cur_collection_attempts, nursery_reserved, cr_latched>>

\* prepare flipping the nursery only in a minor collection.
PrepareNurseryOnMinorOnly ==
    /\ phase = "requested"
    /\ delegated' = <<[fn |-> "common.prepare", flag |-> ~is_current_gc_nursery],
                      [fn |-> "nursery.prepare", flag |-> is_current_gc_nursery]>>
    /\ prepare_full_heap' = ~is_current_gc_nursery
    /\ phase' = "tracing"
    /\ call' = [NoCall EXCEPT !.op = "prepare"]
    /\ ret' = FALSE
    /\ ret_obj' = NoObj
    /\ UNCHANGED <<blockVars, listVars, ret_state, set_arg, config, gc_full_heap,
                   next_gc_full_heap, user_triggered_collection, cur_collection_attempts,
                   nursery_reserved, last_request_ret, cr_latched>>

\* Gen::prepare, by the single thread of the GC prepare work.
Prepare ==
    /\ phase = "requested"
    /\ delegated' = <<[fn |-> "common.prepare", flag |-> ~is_current_gc_nursery],
                      [fn |-> "nursery.prepare", flag |-> TRUE]>>
    /\ prepare_full_heap' = ~is_current_gc_nursery
    /\ phase' = "tracing"
    /\ call' = [NoCall EXCEPT !.op = "prepare"]
    /\ ret' = FALSE
    /\ ret_obj' = NoObj
    /\ UNCHANGED <<blockVars, listVars, ret_state, set_arg, config, gc_full_heap,
                   next_gc_full_heap, user_triggered_collection, cur_collection_attempts,
                   nursery_reserved, last_request_ret, cr_latched>>

\* release clearing the latch at the end of a full-heap collection.
ReleaseClearingLatch ==
    /\ phase = "tracing"
    /\ delegated' = <<[fn |-> "common.release", flag |-> ~is_current_gc_nursery],
                      [fn |-> "nursery.release", flag |-> TRUE]>>
    /\ nursery_reserved' = NurseryReservedAfterRelease
    /\ next_gc_full_heap' = IF gc_full_heap THEN FALSE ELSE next_gc_full_heap
    /\ phase' = "mutator"
    /\ call' = [NoCall EXCEPT !.op = "release"]
    /\ ret' = FALSE
    /\ ret_obj' = NoObj
    /\ UNCHANGED <<blockVars, listVars, ret_state, set_arg, config,
                   prepare_full_heap, gc_full_heap, user_triggered_collection,
                   cur_collection_attempts, last_request_ret, cr_latched>>

\* Gen::release, by the single thread of the GC release work.
Release ==
    /\ phase = "tracing"
    /\ delegated' = <<[fn |-> "common.release", flag |-> ~is_current_gc_nursery],
                      [fn |-> "nursery.release", flag |-> TRUE]>>
    /\ nursery_reserved' = NurseryReservedAfterRelease
    /\ phase' = "mutator"
    /\ call' = [NoCall EXCEPT !.op = "release"]
    /\ ret' = FALSE
    /\ ret_obj' = NoObj
    /\ UNCHANGED <<blockVars, listVars, ret_state, set_arg, config,
                   prepare_full_heap, gc_full_heap, next_gc_full_heap,
                   user_triggered_collection, cur_collection_attempts,
                   last_request_ret, cr_latched>>

\* Gen::trace_object_full_heap on an object lying in `space`.
TraceObjectFullHeap(space) ==
    /\ phase = "tracing"
    /\ delegated' = IF space = "nursery"
                      THEN <<[fn |-> "nursery.trace_object", flag |-> TRUE,
                              semantics |-> "Default"]>>
                      ELSE <<[fn |-> "common.trace_object", flag |-> TRUE]>>
    /\ ret_obj' = IF space = "nursery"
                    THEN [space |-> space, via |-> "nursery.trace_object"]
                    ELSE [space |-> space, via |-> "common.trace_object"]
    /\ call' = [NoCall EXCEPT !.op = "trace_object_full_heap", !.space = space]
    /\ ret' = FALSE
    /\ UNCHANGED <<blockVars, listVars, ret_state, set_arg, config,
                   prepare_full_heap, gc_full_heap, next_gc_full_heap,
                   user_triggered_collection, cur_collection_attempts,
                   nursery_reserved, phase, last_request_ret, cr_latched>>

\* trace_object_nursery handing every object outside the nursery to the
\* common plan, as trace_object_full_heap does.
TraceObjectNurseryTracingMature(space) ==
    /\ phase = "tracing"
    /\ delegated' = IF space = "nursery"
                      THEN <<[fn |-> "nursery.trace_object", flag |-> TRUE,
                              semantics |-> "Default"]>>
                      ELSE <<[fn |-> "common.trace_object", flag |-> TRUE]>>
    /\ ret_obj' = IF space = "nursery"
                    THEN [space |-> space, via |-> "nursery.trace_object"]
                    ELSE [space |-> space, via |-> "common.trace_object"]
    /\ call' = [NoCall EXCEPT !.op = "trace_object_nursery", !.space = space]
    /\ ret' = FALSE
    /\ UNCHANGED <<blockVars, listVars, ret_state, set_arg, config,
                   prepare_full_heap, gc_full_heap, next_gc_full_heap,
                   user_triggered_collection, cur_collection_attempts,
                   nursery_reserved, phase, last_request_ret, cr_latched>>

\* Gen::trace_object_nursery on an object lying in `space`.
TraceObjectNursery(space) ==
    /\ phase = "tracing"
    /\ delegated' = IF space = "nursery"
                      THEN <<[fn |-> "nursery.trace_object", flag |-> TRUE,
                              semantics |-> "Default"]>>
                      ELSE IF space = "los"
                        THEN <<[fn |-> "los.trace_object", flag |-> TRUE]>>
                        ELSE <<>>
    /\ ret_obj' = IF space = "nursery"
                    THEN [space |-> space, via |-> "nursery.trace_object"]
                    ELSE IF space = "los"
                      THEN [space |-> space, via |-> "los.trace_object"]
                      ELSE [space |-> space, via |-> "unchanged"]
    /\ call' = [NoCall EXCEPT !.op = "trace_object_nursery", !.space = space]
    /\ ret' = FALSE
    /\ UNCHANGED <<blockVars, listVars, ret_state, set_arg, config,
                   prepare_full_heap, gc_full_heap, next_gc_full_heap,
                   user_triggered_collection, cur_collection_attempts,
                   nursery_reserved, phase, last_request_ret, cr_latched>>

\* A worker or the plan reads Gen::is_current_gc_nursery.
IsCurrentGcNursery ==
    /\ ret' = is_current_gc_nursery
    /\ call' = [NoCall EXCEPT !.op = "is_current_gc_nursery"]
    /\ delegated' = <<>>
    /\ ret_obj' = NoObj
    /\ UNCHANGED <<blockVars, listVars, ret_state, set_arg, config,
                   prepare_full_heap, gc_full_heap, next_gc_full_heap,
                   user_triggered_collection, cur_collection_attempts,
                   nursery_reserved, phase, last_request_ret, cr_latched>>

\* Gen::set_next_gc_full_heap, called by the concrete plan or external code
\* outside the prepare/trace/release stages of a collection.
SetNextGcFullHeap(v) ==
    /\ phase = "mutator"
    /\ next_gc_full_heap' = v
    /\ cr_latched' = FALSE
    /\ call' = [NoCall EXCEPT !.op = "set_next_gc_full_heap", !.arg = v]
    /\ delegated' = <<>>
    /\ ret' = FALSE
    /\ ret_obj' = NoObj
    /\ UNCHANGED <<blockVars, listVars, ret_state, set_arg, config,
                   prepare_full_heap, gc_full_heap, user_triggered_collection,
                   cur_collection_attempts, nursery_reserved, phase,
                   last_request_ret>>

\* ---- the environment of Gen: the base plan, the host VM and the allocator
\* handle_user_collection_request sets the flag; the base plan resets it
\* once the collection is over.
SetUserTriggeredCollection(v) ==
    /\ phase = "mutator"
    /\ user_triggered_collection # v
    /\ user_triggered_collection' = v
    /\ call' = [NoCall EXCEPT !.op = "env"]
    /\ delegated' = <<>>
    /\ ret' = FALSE
    /\ ret_obj' = NoObj
    /\ UNCHANGED <<blockVars, listVars, ret_state, set_arg, config,
                   prepare_full_heap, gc_full_heap, next_gc_full_heap,
                   cur_collection_attempts, nursery_reserved, phase,
                   last_request_ret, cr_latched>>

\* The base plan counts the attempts to satisfy one allocation by a collection.
SetCurCollectionAttempts(n) ==
    /\ phase = "mutator"
    /\ cur_collection_attempts # n
    /\ cur_collection_attempts' = n
    /\ call' = [NoCall EXCEPT !.op = "env"]
    /\ delegated' = <<>>
    /\ ret' = FALSE
    /\ ret_obj' = NoObj
    /\ UNCHANGED <<blockVars, listVars, ret_state, set_arg, config,
                   prepare_full_heap, gc_full_heap, next_gc_full_heap,
                   user_triggered_collection, nursery_reserved, phase,
                   last_request_ret, cr_latched>>

\* A mutator allocation makes the nursery reserve one more page.
NurseryAllocate ==
    /\ phase = "mutator"
    /\ nursery_reserved < MaxNurseryReserved
    /\ nursery_reserved' = nursery_reserved + 1
    /\ call' = [NoCall EXCEPT !.op = "env"]
    /\ delegated' = <<>>
    /\ ret' = FALSE
    /\ ret_obj' = NoObj
    /\ UNCHANGED <<blockVars, listVars, ret_state, set_arg, config,
                   prepare_full_heap, gc_full_heap, next_gc_full_heap,
                   user_triggered_collection, cur_collection_attempts, phase,
                   last_request_ret, cr_latched>>

NextGen ==
    \/ \E sf \in BOOLEAN, sp \in Spaces, base \in BOOLEAN :
           CollectionRequired(sf, sp, base)
    \/ \E t \in TotalPages, r \in ReservedPages : RequestFullHeapCollection(t, r)
    \/ Prepare
    \/ Release
    \/ \E sp \in Spaces : TraceObjectFullHeap(sp)
    \/ \E sp \in Spaces : TraceObjectNursery(sp)
    \/ IsCurrentGcNursery
    \/ \E v \in BOOLEAN : SetNextGcFullHeap(v)
    \/ \E v \in BOOLEAN : SetUserTriggeredCollection(v)
    \/ \E n \in 0..MaxAttempts : SetCurCollectionAttempts(n)
    \/ NurseryAllocate

SpecGen == InitGen /\ [][NextGen]_vars

\* ------------------------------------------------------------------ BlockState codec
\* A value stored into an 8-bit side-metadata entry.
StoreByte(v) == v % (U8_MAX + 1)

\* `as u8` of a usize.
AsU8(n) == n % (U8_MAX + 1)

\* From<u8> with the encodings of Marked and Unmarked exchanged.
U8ToStateSwapped(byte) ==
    IF byte = MARK_UNALLOCATED THEN Unallocated
    ELSE IF byte = MARK_UNMARKED THEN Marked
    ELSE IF byte = MARK_MARKED THEN Unmarked
    ELSE Reusable(byte)

\* impl From<u8> for BlockState
U8ToState(byte) ==
    IF byte = MARK_UNALLOCATED THEN Unallocated
    ELSE IF byte = MARK_UNMARKED THEN Unmarked
    ELSE IF byte = MARK_MARKED THEN Marked
    ELSE Reusable(byte)

\* impl From<BlockState> for u8
StateToU8(state) ==
    IF state.kind = "Unallocated" THEN MARK_UNALLOCATED
    ELSE IF state.kind = "Unmarked" THEN MARK_UNMARKED
    ELSE IF state.kind = "Marked" THEN MARK_MARKED
    ELSE state.unavailable_lines

\* BlockState::is_reusable
is_reusable(state) == state.kind = "Reusable"

\* Block::get_state
get_state(b) == U8ToState(mark_table[b])

\* Block::set_state: the mark table afterwards.
MarkTableAfterSetState(b, state) ==
    [mark_table EXCEPT ![b] = StoreByte(StateToU8(state))]

\* Every value of the type BlockState.
BlockStates ==
    {Unallocated, Unmarked, Marked} \cup {Reusable(k) : k \in 0..U8_MAX}

NoBlockCall == [op |-> "none", block |-> "none", copy |-> FALSE, mark |-> <<>>,
                state |-> NoState, defrag |-> FALSE, holes |-> 0, thread |-> "none"]

\* The block the codec specification works on.
CodecBlock == CHOOSE b \in Blocks : TRUE

\* ------------------------------------------------------------------ blocks
\* Line::is_marked: the stored byte is the mark state of this collection.
line_is_marked(byte, line_mark_state) == byte = line_mark_state

\* An iteration that counts a hole for every unmarked line.
ScanStepEveryUnmarkedLine(acc, byte, line_mark_state) ==
    IF line_is_marked(byte, line_mark_state)
    THEN [marked_lines |-> acc.marked_lines + 1,
          holes |-> acc.holes,
          prev_line_is_marked |-> TRUE]
    ELSE [marked_lines |-> acc.marked_lines,
          holes |-> acc.holes + 1,
          prev_line_is_marked |-> FALSE]

\* An iteration with the test of prev_line_is_marked inverted.
ScanStepInvertedTest(acc, byte, line_mark_state) ==
    IF line_is_marked(byte, line_mark_state)
    THEN [marked_lines |-> acc.marked_lines + 1,
          holes |-> acc.holes,
          prev_line_is_marked |-> TRUE]
    ELSE [marked_lines |-> acc.marked_lines,
          holes |-> IF acc.prev_line_is_marked THEN acc.holes ELSE acc.holes + 1,
          prev_line_is_marked |-> FALSE]

\* One iteration of the loop of Block::sweep over the lines (block.rs 272-280).
ScanStep(acc, byte, line_mark_state) ==
    IF line_is_marked(byte, line_mark_state)
    THEN [marked_lines |-> acc.marked_lines + 1,
          holes |-> acc.holes,
          prev_line_is_marked |-> TRUE]
    ELSE [marked_lines |-> acc.marked_lines,
          holes |-> IF acc.prev_line_is_marked THEN acc.holes + 1 ELSE acc.holes,
          prev_line_is_marked |-> FALSE]

\* The loop of Block::sweep over the lines lo..hi in ascending order
\* (block.rs 271-281), entered with the locals `acc`: the iterations of lines
\* lo..mid, then those of lines mid+1..hi entered with the locals the first
\* ones left. Each iteration raises one counter by at most one, so after line
\* mid the two counters together count at most mid lines.
RECURSIVE ScanRange(_, _, _, _, _)
ScanRange(marks, line_mark_state, lo, hi, acc) ==
    IF lo > hi THEN acc
    ELSE IF lo = hi THEN ScanStep(acc, marks[lo], line_mark_state)
    ELSE LET mid == (lo + hi) \div 2
             lower == ScanRange(marks, line_mark_state, lo, mid, acc)
         IN  CASE lower.marked_lines + lower.holes <= mid ->
                     ScanRange(marks, line_mark_state, mid + 1, hi, lower)

\* marked_lines and holes of a line mark table, as sweep counts them
\* (block.rs 266-281): the locals after the loop has run over every line.
ScanLines(marks, line_mark_state) ==
    ScanRange(marks, line_mark_state, 1, Len(marks),
              [marked_lines |-> 0, holes |-> 0, prev_line_is_marked |-> TRUE])

\* The state stored without the test for a fully marked block.
SweptStateAlwaysReusable(marked_lines) == Reusable(AsU8(marked_lines))

\* The state stored with the available instead of the unavailable lines.
SweptStateAvailableLines(marked_lines) ==
    IF marked_lines # LINES
    THEN Reusable(AsU8(LINES - marked_lines))
    ELSE Unmarked

\* The state sweep stores for a block it keeps (block.rs 289-298).
SweptState(marked_lines) ==
    IF marked_lines # LINES
    THEN Reusable(AsU8(marked_lines))
    ELSE Unmarked

\* ImmixSpace::release_block: the block is deinitialised and its pages go
\* back to the page resource.
ReleaseBlock(b) ==
    /\ mark_table' = MarkTableAfterSetState(b, Unallocated)
    /\ set_arg' = [set_arg EXCEPT ![b] = Unallocated]
    /\ in_page_resource' = [in_page_resource EXCEPT ![b] = TRUE]

\* The line mark tables the tracer may leave behind: a tile of mark bytes
\* (0 never marked, 1 and 2 the mark states of two collections) repeated over
\* the first `cut` lines, the byte `fill` in the others.
LineMarkStates == {1, 2}
\* Option<u8>: None is <<>>, Some(m) is <<m>>.
LineMarkStateOptions == {<<>>} \cup {<<m>> : m \in LineMarkStates}
Tiles == {<<0>>, <<1>>, <<2>>, <<1, 0>>, <<0, 1>>, <<1, 2>>, <<1, 1, 0>>}
Cuts == {1, LINES - 1, LINES}
Pattern(tile, cut, fill) ==
    [i \in 1..LINES |-> IF i <= cut THEN tile[((i - 1) % Len(tile)) + 1] ELSE fill]
Patterns == {Pattern(t, c, f) : t \in Tiles, c \in Cuts, f \in {0, 1}}

\* init leaving the defrag/holes byte as it finds it.
BlockInitKeepingDefragByte(b, copy) ==
    /\ ~aborted
    /\ mark_table' = MarkTableAfterSetState(b, IF copy THEN Marked ELSE Unmarked)
    /\ set_arg' = [set_arg EXCEPT ![b] = IF copy THEN Marked ELSE Unmarked]
    /\ in_page_resource' = [in_page_resource EXCEPT ![b] = FALSE]
    /\ call' = [NoBlockCall EXCEPT !.op = "init", !.block = b, !.copy = copy]
    /\ ret' = FALSE
    /\ ret_state' = NoState
    /\ UNCHANGED <<genVars, listVars, debug_assertions, ret_obj, block_only,
                   defrag_table, line_marks, reusable_blocks, mark_histogram,
                   aborted, sweeps>>

\* Block::init, on a block acquired from the page resource.
BlockInit(b, copy) ==
    /\ ~aborted
    /\ mark_table' = MarkTableAfterSetState(b, IF copy THEN Marked ELSE Unmarked)
    /\ set_arg' = [set_arg EXCEPT ![b] = IF copy THEN Marked ELSE Unmarked]
    /\ defrag_table' = [defrag_table EXCEPT ![b] = 0]
    /\ in_page_resource' = [in_page_resource EXCEPT ![b] = FALSE]
    /\ call' = [NoBlockCall EXCEPT !.op = "init", !.block = b, !.copy = copy]
    /\ ret' = FALSE
    /\ ret_state' = NoState
    /\ UNCHANGED <<genVars, listVars, debug_assertions, ret_obj,
                   block_only, line_marks, reusable_blocks,
                   mark_histogram, aborted, sweeps>>

\* Block::deinit
BlockDeinit(b) ==
    /\ ~aborted
    /\ mark_table' = MarkTableAfterSetState(b, Unallocated)
    /\ set_arg' = [set_arg EXCEPT ![b] = Unallocated]
    /\ call' = [NoBlockCall EXCEPT !.op = "deinit", !.block = b]
    /\ ret' = FALSE
    /\ ret_state' = NoState
    /\ UNCHANGED <<genVars, listVars, debug_assertions, ret_obj,
                   block_only, defrag_table, line_marks,
                   reusable_blocks, mark_histogram, in_page_resource, aborted,
                   sweeps>>

\* Block::set_state
SetState(b, state) ==
    /\ ~aborted
    /\ mark_table' = MarkTableAfterSetState(b, state)
    /\ set_arg' = [set_arg EXCEPT ![b] = state]
    /\ call' = [NoBlockCall EXCEPT !.op = "set_state", !.block = b, !.state = state]
    /\ ret' = FALSE
    /\ ret_state' = NoState
    /\ UNCHANGED <<genVars, listVars, debug_assertions, ret_obj,
                   block_only, defrag_table, line_marks,
                   reusable_blocks, mark_histogram, in_page_resource, aborted,
                   sweeps>>

\* Block::get_state
GetState(b) ==
    /\ ~aborted
    /\ ret_state' = get_state(b)
    /\ call' = [NoBlockCall EXCEPT !.op = "get_state", !.block = b]
    /\ ret' = FALSE
    /\ UNCHANGED <<genVars, listVars, ret_obj, blockVars, set_arg>>

\* The tracer marks the lines of a block (line mode only).
MarkLines(b, marks) ==
    /\ ~aborted
    /\ ~block_only
    /\ line_marks[b] # marks
    /\ line_marks' = [line_marks EXCEPT ![b] = marks]
    /\ call' = [NoBlockCall EXCEPT !.op = "mark_lines", !.block = b]
    /\ ret' = FALSE
    /\ ret_state' = NoState
    /\ UNCHANGED <<genVars, listVars, debug_assertions, ret_obj,
                   set_arg, block_only, mark_table, defrag_table,
                   reusable_blocks, mark_histogram, in_page_resource, aborted,
                   sweeps>>

\* The block-only sweep releasing every block that is not Unallocated.
SweepBlockOnlyReleasingMarked(b) ==
    LET state == get_state(b) IN
    IF state = Unmarked \/ state = Marked
    THEN /\ ReleaseBlock(b)
         /\ ret' = TRUE
         /\ UNCHANGED <<defrag_table, reusable_blocks, mark_histogram, aborted>>
    ELSE /\ aborted' = is_reusable(state)
         /\ ret' = FALSE
         /\ UNCHANGED <<mark_table, set_arg, in_page_resource, defrag_table,
                        reusable_blocks, mark_histogram>>

\* Block::sweep in a build with BLOCK_ONLY (block.rs 250-263).
SweepBlockOnly(b) ==
    LET state == get_state(b) IN
    IF state = Unmarked
    THEN /\ ReleaseBlock(b)
         /\ ret' = TRUE
         /\ UNCHANGED <<defrag_table, reusable_blocks, mark_histogram, aborted>>
    ELSE /\ aborted' = is_reusable(state)
         /\ ret' = FALSE
         /\ UNCHANGED <<mark_table, set_arg, in_page_resource, defrag_table,
                        reusable_blocks, mark_histogram>>

\* The line-mode sweep counting kept blocks, not marked lines, in the histogram.
SweepLinesCountingBlocks(b, line_mark_state) ==
    IF line_mark_state = <<>>
    THEN \* line_mark_state.unwrap() panics on None
         /\ aborted' = TRUE
         /\ ret' = FALSE
         /\ UNCHANGED <<mark_table, set_arg, in_page_resource, defrag_table,
                        reusable_blocks, mark_histogram>>
    ELSE LET scan == ScanLines(line_marks[b], line_mark_state[1])
             marked_lines == scan.marked_lines
             holes == scan.holes
         IN  IF marked_lines = 0
             THEN /\ ReleaseBlock(b)
                  /\ ret' = TRUE
                  /\ UNCHANGED <<defrag_table, reusable_blocks, mark_histogram,
                                 aborted>>
             ELSE /\ mark_table' = MarkTableAfterSetState(b, SweptState(marked_lines))
                  /\ set_arg' = [set_arg EXCEPT ![b] = SweptState(marked_lines)]
                  /\ reusable_blocks' = IF marked_lines # LINES
                                          THEN Append(reusable_blocks, b)
                                          ELSE reusable_blocks
                  /\ mark_histogram' = [mark_histogram EXCEPT
                                           ![holes] = @ + 1]
                  /\ defrag_table' = [defrag_table EXCEPT ![b] = StoreByte(holes)]
                  /\ ret' = FALSE
                  /\ UNCHANGED <<in_page_resource, aborted>>

\* Block::sweep in a build without BLOCK_ONLY (block.rs 265-304).
SweepLines(b, line_mark_state) ==
    IF line_mark_state = <<>>
    THEN \* line_mark_state.unwrap() panics on None
         /\ aborted' = TRUE
         /\ ret' = FALSE
         /\ UNCHANGED <<mark_table, set_arg, in_page_resource, defrag_table,
                        reusable_blocks, mark_histogram>>
    ELSE LET scan == ScanLines(line_marks[b], line_mark_state[1])
             marked_lines == scan.marked_lines
             holes == scan.holes
         IN  IF marked_lines = 0
             THEN /\ ReleaseBlock(b)
                  /\ ret' = TRUE
                  /\ UNCHANGED <<defrag_table, reusable_blocks, mark_histogram,
                                 aborted>>
             ELSE /\ mark_table' = MarkTableAfterSetState(b, SweptState(marked_lines))
                  /\ set_arg' = [set_arg EXCEPT ![b] = SweptState(marked_lines)]
                  /\ reusable_blocks' = IF marked_lines # LINES
                                          THEN Append(reusable_blocks, b)
                                          ELSE reusable_blocks
                  /\ mark_histogram' = [mark_histogram EXCEPT
                                           ![holes] = @ + marked_lines]
                  /\ defrag_table' = [defrag_table EXCEPT ![b] = StoreByte(holes)]
                  /\ ret' = FALSE
                  /\ UNCHANGED <<in_page_resource, aborted>>

\* Block::sweep
Sweep(b, line_mark_state) ==
    /\ ~aborted
    /\ sweeps < MaxSweeps
    /\ sweeps' = sweeps + 1
    /\ IF block_only THEN SweepBlockOnly(b) ELSE SweepLines(b, line_mark_state)
    /\ call' = [NoBlockCall EXCEPT !.op = "sweep", !.block = b,
                                   !.mark = line_mark_state]
    /\ ret_state' = NoState
    /\ UNCHANGED <<genVars, listVars, debug_assertions, ret_obj, block_only,
                   line_marks>>

\* The codec specification: set_state and get_state on one block, with every
\* value of BlockState.
InitCodec ==
    /\ full_nursery_gc = FALSE
    /\ full_heap_system_gc = FALSE
    /\ max_nursery \in {CHOOSE m \in MaxNurseryBytes : TRUE}
    /\ gc_full_heap = FALSE
    /\ next_gc_full_heap = FALSE
    /\ user_triggered_collection = FALSE
    /\ cur_collection_attempts = 0
    /\ nursery_reserved = 0
    /\ phase = "mutator"
    /\ delegated = <<>>
    /\ last_request_ret = FALSE
    /\ cr_latched = FALSE
    /\ prepare_full_heap = FALSE
    /\ call = NoBlockCall
    /\ ret = FALSE
    /\ ret_obj = NoObj
    /\ ret_state = NoState
    /\ set_arg = [b \in Blocks |-> NoState]
    /\ block_only \in BOOLEAN
    /\ debug_assertions = FALSE
    /\ mark_table = [b \in Blocks |-> 0]
    /\ defrag_table = [b \in Blocks |-> 0]
    /\ line_marks = [b \in Blocks |-> [i \in 1..LINES |-> 0]]
    /\ reusable_blocks = <<>>
    /\ mark_histogram = [h \in 0..LINES |-> 0]
    /\ in_page_resource = [b \in Blocks |-> TRUE]
    /\ aborted = FALSE
    /\ sweeps = 0
    /\ list_lock = "none"
    /\ list_pc = [t \in Threads |-> Idle]
    /\ sweep_pc = [t \in Threads |-> NotSweeping]
    /\ list_log = <<>>
    /\ ret_val = NoVal

NextCodec ==
    \/ \E state \in BlockStates : SetState(CodecBlock, state)
    \/ GetState(CodecBlock)

SpecCodec == InitCodec /\ [][NextCodec]_vars

\* The block specification: blocks are initialised, marked, swept and
\* deinitialised in any order, in a block-only or a line-mode build.
InitBlock ==
    /\ full_nursery_gc = FALSE
    /\ full_heap_system_gc = FALSE
    /\ max_nursery \in {CHOOSE m \in MaxNurseryBytes : TRUE}
    /\ gc_full_heap = FALSE
    /\ next_gc_full_heap = FALSE
    /\ user_triggered_collection = FALSE
    /\ cur_collection_attempts = 0
    /\ nursery_reserved = 0
    /\ phase = "mutator"
    /\ delegated = <<>>
    /\ last_request_ret = FALSE
    /\ cr_latched = FALSE
    /\ prepare_full_heap = FALSE
    /\ call = NoBlockCall
    /\ ret = FALSE
    /\ ret_obj = NoObj
    /\ ret_state = NoState
    /\ set_arg = [b \in Blocks |-> NoState]
    /\ block_only \in BOOLEAN
    /\ debug_assertions = FALSE
    /\ mark_table = [b \in Blocks |-> 0]
    /\ defrag_table = [b \in Blocks |-> 0]
    /\ line_marks = [b \in Blocks |-> [i \in 1..LINES |-> 0]]
    /\ reusable_blocks = <<>>
    /\ mark_histogram = [h \in 0..LINES |-> 0]
    /\ in_page_resource = [b \in Blocks |-> TRUE]
    /\ aborted = FALSE
    /\ sweeps = 0
    /\ list_lock = "none"
    /\ list_pc = [t \in Threads |-> Idle]
    /\ sweep_pc = [t \in Threads |-> NotSweeping]
    /\ list_log = <<>>
    /\ ret_val = NoVal

NextBlock ==
    \/ \E b \in Blocks, copy \in BOOLEAN : BlockInit(b, copy)
    \/ \E b \in Blocks : BlockDeinit(b)
    \/ \E b \in Blocks, marks \in Patterns : MarkLines(b, marks)
    \/ \E b \in Blocks, lms \in LineMarkStateOptions : Sweep(b, lms)

SpecBlock == InitBlock /\ [][NextBlock]_vars

\* ------------------------------------------------------------------ defrag/holes byte
\* Block::DEFRAG_SOURCE_STATE
DEFRAG_SOURCE_STATE == U8_MAX

\* A usize result.
Usize(n) == [NoVal EXCEPT !.kind = "usize", !.n = n]

\* The load of the defrag byte: load_atomic(..) as u8.
defrag_byte(b) == AsU8(defrag_table[b])

\* The assertion of is_defrag_source accepting every byte.
IsDefragSourceAssertionAnyByte(byte) == byte \in 0..U8_MAX

\* debug_assert!(byte == 0 || byte == Self::DEFRAG_SOURCE_STATE) (block.rs 173)
IsDefragSourceAssertion(byte) == byte = 0 \/ byte = DEFRAG_SOURCE_STATE

\* The assertion of set_as_defrag_source testing for a marked block.
SetAsDefragSourceAssertionMarked(b) == get_state(b) # Marked

\* debug_assert!(!self.get_state().is_reusable()) (block.rs 180)
SetAsDefragSourceAssertion(b) == ~is_reusable(get_state(b))

\* The byte of set_as_defrag_source with the two values exchanged.
DefragByteForExchanged(defrag) == IF defrag THEN 0 ELSE DEFRAG_SOURCE_STATE

\* let byte = if defrag { Self::DEFRAG_SOURCE_STATE } else { 0 } (block.rs 182)
DefragByteFor(defrag) == IF defrag THEN DEFRAG_SOURCE_STATE ELSE 0

\* The assertion of get_holes accepting the sentinel.
GetHolesAssertionNever(byte) == byte \in 0..U8_MAX

\* debug_assert_ne!(byte, Self::DEFRAG_SOURCE_STATE) (block.rs 210)
GetHolesAssertion(byte) == byte # DEFRAG_SOURCE_STATE

\* Block::is_defrag_source
IsDefragSource(b) ==
    /\ ~aborted
    /\ IF debug_assertions /\ ~IsDefragSourceAssertion(defrag_byte(b))
       THEN /\ aborted' = TRUE
            /\ ret' = FALSE
       ELSE /\ ret' = (defrag_byte(b) = DEFRAG_SOURCE_STATE)
            /\ UNCHANGED aborted
    /\ call' = [NoBlockCall EXCEPT !.op = "is_defrag_source", !.block = b]
    /\ ret_state' = NoState
    /\ ret_val' = NoVal
    /\ UNCHANGED <<genVars, list_lock, list_pc, sweep_pc, list_log, ret_obj, set_arg, block_only,
                   debug_assertions, mark_table, defrag_table, line_marks,
                   reusable_blocks, mark_histogram, in_page_resource, sweeps>>

\* Block::set_as_defrag_source
SetAsDefragSource(b, defrag) ==
    /\ ~aborted
    /\ IF debug_assertions /\ defrag /\ ~SetAsDefragSourceAssertion(b)
       THEN /\ aborted' = TRUE
            /\ UNCHANGED defrag_table
       ELSE /\ defrag_table' = [defrag_table EXCEPT
                                   ![b] = StoreByte(DefragByteFor(defrag))]
            /\ UNCHANGED aborted
    /\ call' = [NoBlockCall EXCEPT !.op = "set_as_defrag_source", !.block = b,
                                   !.defrag = defrag]
    /\ ret' = FALSE
    /\ ret_state' = NoState
    /\ ret_val' = NoVal
    /\ UNCHANGED <<genVars, list_lock, list_pc, sweep_pc, list_log, ret_obj, set_arg, block_only,
                   debug_assertions, mark_table, line_marks, reusable_blocks,
                   mark_histogram, in_page_resource, sweeps>>

\* Block::set_holes
SetHoles(b, holes) ==
    /\ ~aborted
    /\ defrag_table' = [defrag_table EXCEPT ![b] = StoreByte(holes)]
    /\ call' = [NoBlockCall EXCEPT !.op = "set_holes", !.block = b, !.holes = holes]
    /\ ret' = FALSE
    /\ ret_state' = NoState
    /\ ret_val' = NoVal
    /\ UNCHANGED <<genVars, list_lock, list_pc, sweep_pc, list_log, ret_obj, set_arg, block_only,
                   debug_assertions, mark_table, line_marks, reusable_blocks,
                   mark_histogram, in_page_resource, aborted, sweeps>>

\* Block::get_holes
GetHoles(b) ==
    /\ ~aborted
    /\ IF debug_assertions /\ ~GetHolesAssertion(defrag_byte(b))
       THEN /\ aborted' = TRUE
            /\ ret_val' = NoVal
       ELSE /\ ret_val' = Usize(defrag_byte(b))
            /\ UNCHANGED aborted
    /\ call' = [NoBlockCall EXCEPT !.op = "get_holes", !.block = b]
    /\ ret' = FALSE
    /\ ret_state' = NoState
    /\ UNCHANGED <<genVars, list_lock, list_pc, sweep_pc, list_log, ret_obj, set_arg, block_only,
                   debug_assertions, mark_table, defrag_table, line_marks,
                   reusable_blocks, mark_histogram, in_page_resource, sweeps>>

\* The defrag byte specification: the accessors of the defrag/holes byte on
\* one block, with every byte as a hole count, in a build with or without
\* debug assertions (BLOCK_ONLY as mod.rs sets it: the accessors do not read it).
InitDefragByte ==
    /\ full_nursery_gc = FALSE
    /\ full_heap_system_gc = FALSE
    /\ max_nursery \in {CHOOSE m \in MaxNurseryBytes : TRUE}
    /\ gc_full_heap = FALSE
    /\ next_gc_full_heap = FALSE
    /\ user_triggered_collection = FALSE
    /\ cur_collection_attempts = 0
    /\ nursery_reserved = 0
    /\ phase = "mutator"
    /\ delegated = <<>>
    /\ last_request_ret = FALSE
    /\ cr_latched = FALSE
    /\ prepare_full_heap = FALSE
    /\ call = NoBlockCall
    /\ ret = FALSE
    /\ ret_obj = NoObj
    /\ ret_state = NoState
    /\ set_arg = [b \in Blocks |-> NoState]
    /\ block_only = TRUE
    /\ debug_assertions \in BOOLEAN
    /\ mark_table = [b \in Blocks |-> 0]
    /\ defrag_table = [b \in Blocks |-> 0]
    /\ line_marks = [b \in Blocks |-> [i \in 1..LINES |-> 0]]
    /\ reusable_blocks = <<>>
    /\ mark_histogram = [h \in 0..LINES |-> 0]
    /\ in_page_resource = [b \in Blocks |-> TRUE]
    /\ aborted = FALSE
    /\ sweeps = 0
    /\ list_lock = "none"
    /\ list_pc = [t \in Threads |-> Idle]
    /\ sweep_pc = [t \in Threads |-> NotSweeping]
    /\ list_log = <<>>
    /\ ret_val = NoVal

\* The states a block is put in before its defrag byte is accessed.
AccessorStates == {Unmarked, Marked, Reusable(1)}

NextDefragByte ==
    \/ \E copy \in BOOLEAN : BlockInit(CodecBlock, copy)
    \/ \E state \in AccessorStates : SetState(CodecBlock, state)
    \/ \E holes \in 0..U8_MAX : SetHoles(CodecBlock, holes)
    \/ GetHoles(CodecBlock)
    \/ \E defrag \in BOOLEAN : SetAsDefragSource(CodecBlock, defrag)
    \/ IsDefragSource(CodecBlock)

SpecDefragByte == InitDefragByte /\ [][NextDefragByte]_vars

\* The block interface specification: every operation of Block in any order,
\* in either build of BLOCK_ONLY and of the debug assertions.
InitBlockApi ==
    /\ full_nursery_gc = FALSE
    /\ full_heap_system_gc = FALSE
    /\ max_nursery \in {CHOOSE m \in MaxNurseryBytes : TRUE}
    /\ gc_full_heap = FALSE
    /\ next_gc_full_heap = FALSE
    /\ user_triggered_collection = FALSE
    /\ cur_collection_attempts = 0
    /\ nursery_reserved = 0
    /\ phase = "mutator"
    /\ delegated = <<>>
    /\ last_request_ret = FALSE
    /\ cr_latched = FALSE
    /\ prepare_full_heap = FALSE
    /\ call = NoBlockCall
    /\ ret = FALSE
    /\ ret_obj = NoObj
    /\ ret_state = NoState
    /\ set_arg = [b \in Blocks |-> NoState]
    /\ block_only \in BOOLEAN
    /\ debug_assertions \in BOOLEAN
    /\ mark_table = [b \in Blocks |-> 0]
    /\ defrag_table = [b \in Blocks |-> 0]
    /\ line_marks = [b \in Blocks |-> [i \in 1..LINES |-> 0]]
    /\ reusable_blocks = <<>>
    /\ mark_histogram = [h \in 0..LINES |-> 0]
    /\ in_page_resource = [b \in Blocks |-> TRUE]
    /\ aborted = FALSE
    /\ sweeps = 0
    /\ list_lock = "none"
    /\ list_pc = [t \in Threads |-> Idle]
    /\ sweep_pc = [t \in Threads |-> NotSweeping]
    /\ list_log = <<>>
    /\ ret_val = NoVal

\* The hole counts handed to set_holes by a caller.
CallerHoles == {0, 1, DEFRAG_SOURCE_STATE}

\* The line mark tables of the block interface specification: no line marked,
\* one line marked, every other line marked, every line marked.
ApiPatterns == {Pattern(<<0>>, LINES, 0), Pattern(<<1>>, 1, 0),
                Pattern(<<1, 0>>, LINES, 0), Pattern(<<1>>, LINES, 1)}

\* A caller holds the block: it was acquired and its pages are not returned.
Held(b) == ~in_page_resource[b]

NextBlockApi ==
    \/ \E b \in Blocks, copy \in BOOLEAN : BlockInit(b, copy)
    \/ \E b \in Blocks : BlockDeinit(b)
    \/ \E b \in Blocks, state \in AccessorStates : Held(b) /\ SetState(b, state)
    \/ \E b \in Blocks, holes \in CallerHoles : Held(b) /\ SetHoles(b, holes)
    \/ \E b \in Blocks : Held(b) /\ GetHoles(b)
    \/ \E b \in Blocks, defrag \in BOOLEAN : Held(b) /\ SetAsDefragSource(b, defrag)
    \/ \E b \in Blocks : Held(b) /\ IsDefragSource(b)
    \/ \E b \in Blocks, marks \in ApiPatterns : Held(b) /\ MarkLines(b, marks)
    \/ \E b \in Blocks, lms \in LineMarkStateOptions : Sweep(b, lms)

SpecBlockApi == InitBlockApi /\ [][NextBlockApi]_vars

\* ------------------------------------------------------------------ BlockList
\* The blocks the threads push.
ListBlocks == {"b1", "b2"}

\* Option<Block>
SomeBlock(b) == [NoVal EXCEPT !.kind = "Some", !.block = b]
NoneBlock == [NoVal EXCEPT !.kind = "None"]

\* The operations of BlockList.
ListOps == {"len", "push", "pop", "reset", "get_blocks"}

\* A lock that is granted while another thread holds the guard.
LockAvailableAlways == TRUE

\* self.queue.lock(): the mutex is granted when no thread holds its guard.
LockAvailable == list_lock = "none"

\* pop taking the oldest block.
PopResultOldest(queue, len) ==
    IF len = 0 \/ queue = <<>> THEN NoneBlock ELSE SomeBlock(queue[1])

\* Vec::pop under the guard: the last of the `len` elements, None when empty
\* (len is the length of the queue for as long as the guard is held).
PopResult(queue, len) ==
    IF len = 0 \/ queue = <<>> THEN NoneBlock
    ELSE SomeBlock(queue[IF len <= Len(queue) THEN len ELSE Len(queue)])

\* The queue after Vec::pop under the guard.
QueueAfterPop(queue, len) ==
    IF len = 0 \/ queue = <<>> THEN queue
    ELSE SubSeq(queue, 1, (IF len <= Len(queue) THEN len ELSE Len(queue)) - 1)

\* The queue after Vec::push under the guard: the block is written after the
\* `len` elements and the length becomes len + 1.
QueueAfterPush(queue, len, b) ==
    [i \in 1..(len + 1) |->
        IF i = len + 1 THEN b ELSE IF i <= Len(queue) THEN queue[i] ELSE "stale"]

\* What the operations of BlockList leave alone.
ListFrame ==
    UNCHANGED <<genVars, sweep_pc, ret, ret_obj, ret_state, set_arg, block_only,
                debug_assertions, mark_table, defrag_table, line_marks,
                mark_histogram, in_page_resource, aborted, sweeps>>

\* The temporary guard of an operation is dropped when the operation returns.
Unlock(t) ==
    /\ list_lock' = "none"
    /\ list_pc' = [list_pc EXCEPT ![t] = Idle]

\* A thread enters an operation of BlockList: self.queue.lock().
ListLock(t, op, b) ==
    /\ list_pc[t].at = "idle"
    /\ LockAvailable
    /\ (op = "push") = (b # "none")
    /\ op \in {"push", "pop", "reset"} => Len(list_log) < MaxListOps
    /\ list_lock' = t
    /\ list_pc' = [list_pc EXCEPT ![t] = [Idle EXCEPT !.at = "locked", !.op = op,
                                                      !.block = b,
                                                      !.len = Len(reusable_blocks)]]
    /\ UNCHANGED <<call, reusable_blocks, list_log, ret_val>>
    /\ ListFrame

\* BlockList::len
ListLen(t) ==
    /\ list_pc[t].at = "locked" /\ list_pc[t].op = "len"
    /\ ret_val' = Usize(list_pc[t].len)
    /\ call' = [NoBlockCall EXCEPT !.op = "len", !.thread = t]
    /\ Unlock(t)
    /\ UNCHANGED <<reusable_blocks, list_log>>
    /\ ListFrame

\* BlockList::push
ListPush(t) ==
    /\ list_pc[t].at = "locked" /\ list_pc[t].op = "push"
    /\ reusable_blocks' = QueueAfterPush(reusable_blocks, list_pc[t].len,
                                         list_pc[t].block)
    /\ list_log' = Append(list_log, [op |-> "push", block |-> list_pc[t].block])
    /\ ret_val' = NoVal
    /\ call' = [NoBlockCall EXCEPT !.op = "push", !.thread = t,
                                   !.block = list_pc[t].block]
    /\ Unlock(t)
    /\ ListFrame

\* BlockList::pop
ListPop(t) ==
    /\ list_pc[t].at = "locked" /\ list_pc[t].op = "pop"
    /\ ret_val' = PopResult(reusable_blocks, list_pc[t].len)
    /\ reusable_blocks' = QueueAfterPop(reusable_blocks, list_pc[t].len)
    /\ list_log' = Append(list_log,
                          [op |-> "pop",
                           block |-> PopResult(reusable_blocks, list_pc[t].len).block])
    /\ call' = [NoBlockCall EXCEPT !.op = "pop", !.thread = t]
    /\ Unlock(t)
    /\ ListFrame

\* BlockList::reset
ListReset(t) ==
    /\ list_pc[t].at = "locked" /\ list_pc[t].op = "reset"
    /\ reusable_blocks' = <<>>
    /\ list_log' = Append(list_log, [op |-> "reset", block |-> "none"])
    /\ ret_val' = NoVal
    /\ call' = [NoBlockCall EXCEPT !.op = "reset", !.thread = t]
    /\ Unlock(t)
    /\ ListFrame

\* BlockList::get_blocks: the guard goes to the caller, who sees the queue
\* through it.
ListGetBlocks(t) ==
    /\ list_pc[t].at = "locked" /\ list_pc[t].op = "get_blocks"
    /\ list_pc' = [list_pc EXCEPT ![t] = [@ EXCEPT !.at = "viewing",
                                                   !.view = reusable_blocks]]
    /\ ret_val' = [NoVal EXCEPT !.kind = "guard"]
    /\ call' = [NoBlockCall EXCEPT !.op = "get_blocks", !.thread = t]
    /\ UNCHANGED <<list_lock, reusable_blocks, list_log>>
    /\ ListFrame

\* The caller of get_blocks drops the MutexGuard.
ListDropGuard(t) ==
    /\ list_pc[t].at = "viewing"
    /\ Unlock(t)
    /\ call' = [NoBlockCall EXCEPT !.op = "drop_guard", !.thread = t]
    /\ ret_val' = NoVal
    /\ UNCHANGED <<reusable_blocks, list_log>>
    /\ ListFrame

\* The list specification: several threads use one BlockList in any order.
InitList ==
    /\ full_nursery_gc = FALSE
    /\ full_heap_system_gc = FALSE
    /\ max_nursery \in {CHOOSE m \in MaxNurseryBytes : TRUE}
    /\ gc_full_heap = FALSE
    /\ next_gc_full_heap = FALSE
    /\ user_triggered_collection = FALSE
    /\ cur_collection_attempts = 0
    /\ nursery_reserved = 0
    /\ phase = "mutator"
    /\ delegated = <<>>
    /\ last_request_ret = FALSE
    /\ cr_latched = FALSE
    /\ prepare_full_heap = FALSE
    /\ call = NoBlockCall
    /\ ret = FALSE
    /\ ret_obj = NoObj
    /\ ret_state = NoState
    /\ set_arg = [b \in Blocks |-> NoState]
    /\ block_only = TRUE
    /\ debug_assertions = FALSE
    /\ mark_table = [b \in Blocks |-> 0]
    /\ defrag_table = [b \in Blocks |-> 0]
    /\ line_marks = [b \in Blocks |-> [i \in 1..LINES |-> 0]]
    /\ reusable_blocks = <<>>
    /\ mark_histogram = [h \in 0..LINES |-> 0]
    /\ in_page_resource = [b \in Blocks |-> TRUE]
    /\ aborted = FALSE
    /\ sweeps = 0
    /\ list_lock = "none"
    /\ list_pc = [t \in Threads |-> Idle]
    /\ sweep_pc = [t \in Threads |-> NotSweeping]
    /\ list_log = <<>>
    /\ ret_val = NoVal

NextList ==
    \/ \E t \in Threads, op \in ListOps, b \in ListBlocks \cup {"none"} :
           ListLock(t, op, b)
    \/ \E t \in Threads : ListLen(t)
    \/ \E t \in Threads : ListPush(t)
    \/ \E t \in Threads : ListPop(t)
    \/ \E t \in Threads : ListReset(t)
    \/ \E t \in Threads : ListGetBlocks(t)
    \/ \E t \in Threads : ListDropGuard(t)

SpecList == InitList /\ [][NextList]_vars

\* ------------------------------------------------------------------ sweeping workers
\* The blocks of the space that the workers sweep, each block by one worker.
SweptBlocks == {"b1", "b2", "b3"}

\* The mark state of the collection whose sweep is modelled.
SweepMarkState == 1

\* The state tracing leaves a block in: Marked once an object in it was
\* marked, Unmarked as init(false) left it otherwise.
TracedState(marks) ==
    IF \E i \in 1..LINES : marks[i] = SweepMarkState THEN Marked ELSE Unmarked

\* The keeping branch pushing the block before it stores its state.
KeepStepsPushFirst(marked_lines) ==
    IF marked_lines # LINES
    THEN <<"push", "set_state", "histogram", "set_holes">>
    ELSE <<"set_state", "histogram", "set_holes">>

\* The statements of the keeping branch of Block::sweep, in program order
\* (block.rs 289-302).
KeepSteps(marked_lines) ==
    IF marked_lines # LINES
    THEN <<"set_state", "push", "histogram", "set_holes">>
    ELSE <<"set_state", "histogram", "set_holes">>

\* The blocks some worker has swept or is sweeping.
TakenBlocks ==
    UNION {sweep_pc[w].swept \cup {sweep_pc[w].block} : w \in Threads}

\* The statement worker w executes next in the keeping branch.
KeepStep(w) ==
    IF sweep_pc[w].at = "keep"
    THEN KeepSteps(sweep_pc[w].marked_lines)[sweep_pc[w].step]
    ELSE "none"

\* The worker after a statement of the keeping branch: at the next one, or
\* back from sweep (which returns false) once the last is done.
AfterKeepStep(w, pc) ==
    IF pc.step < Len(KeepSteps(pc.marked_lines))
    THEN [pc EXCEPT !.step = @ + 1]
    ELSE [NotSweeping EXCEPT !.histogram = pc.histogram,
                             !.swept = pc.swept \cup {pc.block}]

\* What a step of a sweeping worker leaves alone.
SweeperFrame ==
    UNCHANGED <<genVars, list_lock, list_pc, list_log, ret_val, ret_obj, ret_state,
                block_only, debug_assertions, line_marks, mark_histogram, aborted,
                sweeps>>

\* Block::sweep, line mode, up to the test of marked_lines (block.rs 265-283):
\* worker w takes a block no other worker has and counts its lines.
SweepScan(w, b) ==
    /\ sweep_pc[w].at = "idle"
    /\ b \notin TakenBlocks
    /\ LET scan == ScanLines(line_marks[b], SweepMarkState)
       IN  sweep_pc' = [sweep_pc EXCEPT ![w] =
               [@ EXCEPT !.at = IF scan.marked_lines = 0 THEN "release" ELSE "keep",
                         !.block = b,
                         !.marked_lines = scan.marked_lines,
                         !.holes = scan.holes,
                         !.step = 1]]
    /\ call' = [NoBlockCall EXCEPT !.op = "sweep: scan", !.block = b, !.thread = w,
                                   !.mark = <<SweepMarkState>>]
    /\ UNCHANGED <<mark_table, set_arg, defrag_table, reusable_blocks,
                   in_page_resource, ret>>
    /\ SweeperFrame

\* space.release_block(*self); true (block.rs 284-286)
SweepRelease(w) ==
    /\ sweep_pc[w].at = "release"
    /\ ReleaseBlock(sweep_pc[w].block)
    /\ ret' = TRUE
    /\ sweep_pc' = [sweep_pc EXCEPT ![w] =
           [NotSweeping EXCEPT !.histogram = sweep_pc[w].histogram,
                               !.swept = sweep_pc[w].swept \cup {sweep_pc[w].block}]]
    /\ call' = [NoBlockCall EXCEPT !.op = "sweep: release_block",
                                   !.block = sweep_pc[w].block, !.thread = w]
    /\ UNCHANGED <<defrag_table, reusable_blocks>>
    /\ SweeperFrame

\* self.set_state(..) of the keeping branch (block.rs 291-293, 297)
SweepSetState(w) ==
    /\ KeepStep(w) = "set_state"
    /\ mark_table' = MarkTableAfterSetState(sweep_pc[w].block,
                                            SweptState(sweep_pc[w].marked_lines))
    /\ set_arg' = [set_arg EXCEPT ![sweep_pc[w].block] =
                      SweptState(sweep_pc[w].marked_lines)]
    /\ sweep_pc' = [sweep_pc EXCEPT ![w] = AfterKeepStep(w, sweep_pc[w])]
    /\ call' = [NoBlockCall EXCEPT !.op = "sweep: set_state",
                                   !.block = sweep_pc[w].block, !.thread = w]
    /\ UNCHANGED <<defrag_table, reusable_blocks, in_page_resource, ret>>
    /\ SweeperFrame

\* space.reusable_blocks.push(*self) (block.rs 294): BlockList::push, under
\* the lock of the queue.
SweepPush(w) ==
    /\ KeepStep(w) = "push"
    /\ LockAvailable
    /\ reusable_blocks' = QueueAfterPush(reusable_blocks, Len(reusable_blocks),
                                         sweep_pc[w].block)
    /\ sweep_pc' = [sweep_pc EXCEPT ![w] = AfterKeepStep(w, sweep_pc[w])]
    /\ call' = [NoBlockCall EXCEPT !.op = "sweep: push",
                                   !.block = sweep_pc[w].block, !.thread = w]
    /\ UNCHANGED <<mark_table, set_arg, defrag_table, in_page_resource, ret>>
    /\ SweeperFrame

\* mark_histogram[holes] += marked_lines (block.rs 300), on the histogram the
\* worker handed to sweep.
SweepHistogram(w) ==
    /\ KeepStep(w) = "histogram"
    /\ sweep_pc' = [sweep_pc EXCEPT ![w] =
           AfterKeepStep(w, [sweep_pc[w] EXCEPT
                                !.histogram[sweep_pc[w].holes] =
                                    @ + sweep_pc[w].marked_lines])]
    /\ call' = [NoBlockCall EXCEPT !.op = "sweep: histogram",
                                   !.block = sweep_pc[w].block, !.thread = w]
    /\ UNCHANGED <<mark_table, set_arg, defrag_table, reusable_blocks,
                   in_page_resource, ret>>
    /\ SweeperFrame

\* self.set_holes(holes); false (block.rs 302-303)
SweepSetHoles(w) ==
    /\ KeepStep(w) = "set_holes"
    /\ defrag_table' = [defrag_table EXCEPT
                           ![sweep_pc[w].block] = StoreByte(sweep_pc[w].holes)]
    /\ ret' = FALSE
    /\ sweep_pc' = [sweep_pc EXCEPT ![w] = AfterKeepStep(w, sweep_pc[w])]
    /\ call' = [NoBlockCall EXCEPT !.op = "sweep: set_holes",
                                   !.block = sweep_pc[w].block, !.thread = w]
    /\ UNCHANGED <<mark_table, set_arg, reusable_blocks, in_page_resource>>
    /\ SweeperFrame

\* The sweepers specification: after tracing, the workers sweep the blocks of
\* a line-mode space, each block once, a statement of sweep at a time; the
\* reusable list starts empty and no allocator pops meanwhile.
InitSweepers ==
    /\ full_nursery_gc = FALSE
    /\ full_heap_system_gc = FALSE
    /\ max_nursery \in {CHOOSE m \in MaxNurseryBytes : TRUE}
    /\ gc_full_heap = FALSE
    /\ next_gc_full_heap = FALSE
    /\ user_triggered_collection = FALSE
    /\ cur_collection_attempts = 0
    /\ nursery_reserved = 0
    /\ phase = "mutator"
    /\ delegated = <<>>
    /\ last_request_ret = FALSE
    /\ cr_latched = FALSE
    /\ prepare_full_heap = FALSE
    /\ call = NoBlockCall
    /\ ret = FALSE
    /\ ret_obj = NoObj
    /\ ret_state = NoState
    /\ set_arg = [b \in SweptBlocks |-> NoState]
    /\ block_only = FALSE
    /\ debug_assertions = FALSE
    /\ line_marks \in [SweptBlocks -> ApiPatterns]
    /\ mark_table = [b \in SweptBlocks |-> StateToU8(TracedState(line_marks[b]))]
    /\ defrag_table = [b \in SweptBlocks |-> 0]
    /\ reusable_blocks = <<>>
    /\ mark_histogram = [h \in 0..LINES |-> 0]
    /\ in_page_resource = [b \in SweptBlocks |-> FALSE]
    /\ aborted = FALSE
    /\ sweeps = 0
    /\ list_lock = "none"
    /\ list_pc = [t \in Threads |-> Idle]
    /\ sweep_pc = [t \in Threads |-> NotSweeping]
    /\ list_log = <<>>
    /\ ret_val = NoVal

NextSweepers ==
    \/ \E w \in Threads, b \in SweptBlocks : SweepScan(w, b)
    \/ \E w \in Threads : SweepRelease(w)
    \/ \E w \in Threads : SweepSetState(w)
    \/ \E w \in Threads : SweepPush(w)
    \/ \E w \in Threads : SweepHistogram(w)
    \/ \E w \in Threads : SweepSetHoles(w)

SpecSweepers == InitSweepers /\ [][NextSweepers]_vars

\* ------------------------------------------------------------------ claims on Gen
\* C1: request_full_heap_collection(total_pages, reserved_pages) returns true
\* exactly when FULL_NURSERY_GC holds, or the collection is user triggered and
\* full_heap_system_gc is set, or next_gc_full_heap is latched, or
\* cur_collection_attempts > 1, or total_pages <= reserved_pages. With no other
\* signal (100,100) gives true and (100,99) false, and with two attempts the
\* result is true whatever the reserves are.
C1_RequestDecision ==
    call.op = "request_full_heap_collection" =>
        /\ ret = ( \/ full_nursery_gc
                   \/ (user_triggered_collection /\ full_heap_system_gc)
                   \/ next_gc_full_heap
                   \/ cur_collection_attempts > 1
                   \/ call.total <= call.reserved )
        /\ (/\ ~full_nursery_gc
            /\ ~user_triggered_collection
            /\ ~next_gc_full_heap
            /\ cur_collection_attempts <= 1
            /\ call.total = 100) =>
               /\ call.reserved = 100 => ret = TRUE
               /\ call.reserved = 99 => ret = FALSE
        /\ cur_collection_attempts = 2 => ret = TRUE

\* C1 witness: a heuristic-only request (100, 99) that came out minor.
C1_Witness ==
    /\ call.op = "request_full_heap_collection"
    /\ ~full_nursery_gc /\ ~user_triggered_collection /\ ~next_gc_full_heap
    /\ cur_collection_attempts = 1
    /\ call.total = 100 /\ call.reserved = 99
    /\ ret = FALSE

\* C2 as claimed: whenever collection_required is called with space_full and a
\* space other than the nursery, next_gc_full_heap is true when it returns,
\* whatever the nursery has reserved.
C2_Original ==
    (call.op = "collection_required" /\ call.space_full /\ call.space # "nursery")
        => next_gc_full_heap

\* C2 amended: collection_required called with space_full and a space other
\* than the nursery leaves next_gc_full_heap true provided the nursery's
\* reserved pages are below bytes_to_pages_up(max_nursery); every other call,
\* the one with a full nursery included, leaves next_gc_full_heap as it was.
C2_LatchUnlessNurseryFull ==
    [][call'.op = "collection_required" =>
         next_gc_full_heap' =
            IF /\ call'.space_full
               /\ call'.space # "nursery"
               /\ nursery_reserved * BYTES_IN_PAGE < max_nursery
            THEN TRUE
            ELSE next_gc_full_heap]_vars

\* C2 witness: the mature space is full, the nursery is not, the latch is set.
C2_Witness ==
    /\ call.op = "collection_required" /\ call.space_full /\ call.space = "mature"
    /\ nursery_reserved * BYTES_IN_PAGE < max_nursery
    /\ ~call.base
    /\ next_gc_full_heap

\* C3: once collection_required has latched next_gc_full_heap for a full
\* space other than the nursery, the next request_full_heap_collection returns
\* true and sets gc_full_heap, whatever total_pages and reserved_pages are.
C3_SpaceFullPromotion ==
    (call.op = "request_full_heap_collection" /\ cr_latched)
        => (ret = TRUE /\ gc_full_heap = TRUE)

\* C3 witness: the heuristic alone would have chosen a minor collection.
C3_Witness ==
    /\ call.op = "request_full_heap_collection" /\ cr_latched
    /\ call.total = 1000 /\ call.reserved = 400
    /\ ~full_nursery_gc /\ ~user_triggered_collection
    /\ cur_collection_attempts <= 1
    /\ ret = TRUE /\ gc_full_heap = TRUE

\* C4: collection_required returns (nursery full) OR (base accounting result),
\* the nursery being full when its reserved pages reach max_nursery rounded up
\* to pages.
C4_CollectionRequiredResult ==
    call.op = "collection_required" =>
        /\ ret = (nursery_reserved * BYTES_IN_PAGE >= max_nursery \/ call.base)
        /\ nursery_reserved >= bytes_to_pages_up(max_nursery) => ret = TRUE
        /\ (nursery_reserved = bytes_to_pages_up(max_nursery) - 1 /\ ~call.base)
              => ret = FALSE

\* C4 witness: the nursery exactly full, the base accounting asking for nothing.
C4_Witness ==
    /\ call.op = "collection_required"
    /\ nursery_reserved = bytes_to_pages_up(max_nursery)
    /\ ~call.base /\ ~call.space_full
    /\ ret = TRUE

\* C5 as claimed: when the release of a full-heap collection has completed,
\* next_gc_full_heap is false.
C5_Original ==
    (call.op = "release" /\ gc_full_heap) => ~next_gc_full_heap

\* C5 amended: the coordinator's release leaves next_gc_full_heap as it was;
\* the latch goes from true to false only by set_next_gc_full_heap(false); and
\* while it is false a collection with total_pages > reserved_pages, no user
\* request, cur_collection_attempts <= 1 and FULL_NURSERY_GC off is minor.
C5_LatchClearedOnlyBySetter ==
    [][/\ call'.op = "release" => next_gc_full_heap' = next_gc_full_heap
       /\ (next_gc_full_heap /\ ~next_gc_full_heap')
             => (call'.op = "set_next_gc_full_heap" /\ call'.arg = FALSE)
       /\ (/\ call'.op = "request_full_heap_collection"
           /\ ~next_gc_full_heap
           /\ call'.total > call'.reserved
           /\ ~user_triggered_collection
           /\ cur_collection_attempts <= 1
           /\ ~full_nursery_gc) => ret' = FALSE]_vars

\* C5 witness: a full-heap collection has been released with the latch still set.
C5_Witness ==
    /\ call.op = "release" /\ gc_full_heap /\ next_gc_full_heap
    /\ phase = "mutator"

\* C6: is_current_gc_nursery() is the negation of gc_full_heap, and
\* gc_full_heap is the result of the most recent request_full_heap_collection
\* (false before the first): no other operation writes it.
C6_ModeStable ==
    /\ gc_full_heap = last_request_ret
    /\ call.op = "is_current_gc_nursery" => ret = ~gc_full_heap

\* C6 witness: a reader during tracing of a full-heap collection.
C6_Witness ==
    /\ call.op = "is_current_gc_nursery"
    /\ phase = "tracing"
    /\ gc_full_heap /\ ret = FALSE

\* C15: trace_object_nursery returns an object that is neither in the nursery
\* nor in the large-object space unchanged, calling no space's trace; it hands
\* a nursery object to nursery.trace_object with the default allocation
\* semantics and a large object to the LOS trace. trace_object_full_heap hands
\* a nursery object to nursery.trace_object and every other object to
\* common.trace_object.
C15_TraceDispatch ==
    /\ call.op = "trace_object_nursery" =>
          /\ call.space \notin {"nursery", "los"} =>
                /\ delegated = <<>>
                /\ ret_obj = [space |-> call.space, via |-> "unchanged"]
          /\ call.space = "nursery" =>
                /\ Len(delegated) = 1
                /\ delegated[1].fn = "nursery.trace_object"
                /\ delegated[1].semantics = "Default"
                /\ ret_obj = [space |-> "nursery", via |-> "nursery.trace_object"]
          /\ call.space = "los" =>
                /\ Len(delegated) = 1
                /\ delegated[1].fn = "los.trace_object"
                /\ ret_obj = [space |-> "los", via |-> "los.trace_object"]
    /\ call.op = "trace_object_full_heap" =>
          /\ Len(delegated) = 1
          /\ call.space = "nursery" =>
                /\ delegated[1].fn = "nursery.trace_object"
                /\ delegated[1].semantics = "Default"
                /\ ret_obj = [space |-> "nursery", via |-> "nursery.trace_object"]
          /\ call.space # "nursery" =>
                /\ delegated[1].fn = "common.trace_object"
                /\ ret_obj = [space |-> call.space, via |-> "common.trace_object"]

\* C15 witness: a mature object met in a minor collection came back unchanged.
C15_Witness ==
    /\ call.op = "trace_object_nursery" /\ call.space = "mature"
    /\ phase = "tracing" /\ ~gc_full_heap
    /\ delegated = <<>>
    /\ ret_obj.via = "unchanged"

\* C16: in every collection cycle prepare calls common.prepare(tls, full_heap)
\* and then nursery.prepare(true), and release calls common.release(tls,
\* full_heap) and then nursery.release(), full_heap being the result of the
\* cycle's request_full_heap_collection, the same in both: the nursery is
\* prepared and released in a minor and in a full-heap collection alike.
C16_PrepareReleaseDispatch ==
    [][/\ call'.op = "prepare" =>
             /\ call.op = "request_full_heap_collection" \/ phase = "requested"
             /\ Len(delegated') = 2
             /\ delegated'[1] = [fn |-> "common.prepare", flag |-> last_request_ret]
             /\ delegated'[2] = [fn |-> "nursery.prepare", flag |-> TRUE]
             /\ gc_full_heap = last_request_ret
       /\ call'.op = "release" =>
             /\ Len(delegated') = 2
             /\ delegated'[1] = [fn |-> "common.release", flag |-> last_request_ret]
             /\ delegated'[1].flag = prepare_full_heap
             /\ delegated'[2].fn = "nursery.release"
             /\ gc_full_heap = last_request_ret]_vars

\* C16 witness: a minor collection has been released: common.release got
\* full_heap = false and the nursery was released.
C16_Witness ==
    /\ call.op = "release" /\ ~gc_full_heap /\ ~prepare_full_heap
    /\ Len(delegated) = 2
    /\ delegated[1] = [fn |-> "common.release", flag |-> FALSE]
    /\ delegated[2].fn = "nursery.release"

\* C21: the latch next_gc_full_heap is sticky: request_full_heap_collection,
\* prepare, release and the trace operations leave it as it is,
\* collection_required never takes it from true to false, so a latched
\* request makes every request_full_heap_collection return true until
\* set_next_gc_full_heap(false) is called.
C21_LatchSticky ==
    [][/\ call'.op \in {"request_full_heap_collection", "prepare", "release",
                        "trace_object_full_heap", "trace_object_nursery"}
             => next_gc_full_heap' = next_gc_full_heap
       /\ call'.op = "collection_required"
             => (next_gc_full_heap' = next_gc_full_heap \/ next_gc_full_heap')
       /\ (next_gc_full_heap /\ call'.op = "request_full_heap_collection")
             => (ret' /\ gc_full_heap' /\ next_gc_full_heap')
       /\ (next_gc_full_heap /\ ~next_gc_full_heap')
             => (call'.op = "set_next_gc_full_heap" /\ ~call'.arg)]_vars

\* C21 witness: the latch set by set_next_gc_full_heap(true) has outlived a
\* whole collection and makes the next request full-heap, where the
\* heuristic alone would have chosen a minor collection.
C21_Witness ==
    /\ call.op = "request_full_heap_collection"
    /\ next_gc_full_heap /\ ~cr_latched
    /\ prepare_full_heap
    /\ call.total = 1000 /\ call.reserved = 400
    /\ ~full_nursery_gc /\ ~user_triggered_collection
    /\ cur_collection_attempts <= 1
    /\ ret /\ gc_full_heap

\* ------------------------------------------------------------------ claims on blocks
\* The legal block states: Reusable carries 1..253 unavailable lines.
LegalStates ==
    {[kind |-> "Unallocated", unavailable_lines |-> 0],
     [kind |-> "Unmarked", unavailable_lines |-> 0],
     [kind |-> "Marked", unavailable_lines |-> 0]}
    \cup {[kind |-> "Reusable", unavailable_lines |-> k] : k \in 1..253}

\* C7: the BlockState byte codec round-trips: state -> byte -> state is the
\* identity on the legal states, byte -> state -> byte on 0..255, the five
\* boundary bytes decode as stated, and get_state returns the legal state last
\* handed to set_state.
C7_CodecRoundTrip ==
    /\ \A state \in LegalStates : U8ToState(StateToU8(state)) = state
    /\ \A byte \in 0..255 : StateToU8(U8ToState(byte)) = byte
    /\ U8ToState(0) = [kind |-> "Unallocated", unavailable_lines |-> 0]
    /\ U8ToState(254) = [kind |-> "Marked", unavailable_lines |-> 0]
    /\ U8ToState(255) = [kind |-> "Unmarked", unavailable_lines |-> 0]
    /\ U8ToState(1) = [kind |-> "Reusable", unavailable_lines |-> 1]
    /\ U8ToState(253) = [kind |-> "Reusable", unavailable_lines |-> 253]
    /\ (call.op = "get_state" /\ set_arg[call.block] \in LegalStates)
          => ret_state = set_arg[call.block]

\* C7 witness: get_state after set_state(Reusable{253}).
C7_Witness ==
    /\ call.op = "get_state"
    /\ set_arg[call.block] = [kind |-> "Reusable", unavailable_lines |-> 253]
    /\ ret_state = [kind |-> "Reusable", unavailable_lines |-> 253]

\* C8: after any sequence of init, sweep and deinit every block's state is
\* Unallocated, Unmarked, Marked or Reusable{k} with 1 <= k <= 127 = LINES - 1,
\* and no Reusable{0} nor a Reusable count of a fully marked block is ever
\* handed to set_state.
C8_StateRange ==
    /\ LINES - 1 = 127
    /\ \A b \in Blocks :
        /\ get_state(b).kind \in {"Unallocated", "Unmarked", "Marked", "Reusable"}
        /\ get_state(b).kind = "Reusable" =>
              (1 <= get_state(b).unavailable_lines
                  /\ get_state(b).unavailable_lines <= 127)
        /\ set_arg[b].kind = "Reusable" =>
              (1 <= set_arg[b].unavailable_lines
                  /\ set_arg[b].unavailable_lines <= 127)

\* C8 witness: a sweep has left a block Reusable{127}.
C8_Witness ==
    \E b \in Blocks :
        /\ call.op = "sweep" /\ call.block = b
        /\ get_state(b) = [kind |-> "Reusable", unavailable_lines |-> 127]

\* The number of lines whose mark byte is the mark state.
CountMarkedLines(marks, m) ==
    Cardinality({i \in 1..Len(marks) : marks[i] = m})

\* The number of maximal runs of consecutive unmarked lines: the unmarked
\* lines that come first or right after a marked line.
UnmarkedRuns(marks, m) ==
    Cardinality({i \in 1..Len(marks) :
                    marks[i] # m /\ (i = 1 \/ marks[i - 1] = m)})

\* C9: a line-mode sweep of a block with at least one marked line records as
\* holes the number of maximal runs of unmarked lines (a run at the block
\* start counts) and counts as marked_lines the lines whose mark byte is the
\* current mark state; the lines MMUUMMMUUUMM give 7 marked lines and 2 holes.
C9_HolesAndMarkedLines ==
    [][(/\ call'.op = "sweep"
        /\ ~block_only
        /\ ~aborted'
        /\ CountMarkedLines(line_marks[call'.block], call'.mark[1]) >= 1) =>
          LET marks == line_marks[call'.block]
              runs == UnmarkedRuns(marks, call'.mark[1])
              marked == CountMarkedLines(marks, call'.mark[1])
          IN  /\ defrag_table'[call'.block] = runs
              /\ mark_histogram'[runs] = mark_histogram[runs] + marked
              /\ ScanLines(marks, call'.mark[1]).holes = runs
              /\ ScanLines(marks, call'.mark[1]).marked_lines = marked
              /\ ScanLines(<<1, 1, 0, 0, 1, 1, 1, 0, 0, 0, 1, 1>>, 1).marked_lines = 7
              /\ ScanLines(<<1, 1, 0, 0, 1, 1, 1, 0, 0, 0, 1, 1>>, 1).holes = 2]_vars

\* C9 witness: a swept block whose first line is unmarked and that has 64 holes.
C9_Witness ==
    \E b \in Blocks :
        /\ call.op = "sweep" /\ call.block = b /\ ~block_only /\ ~aborted
        /\ call.mark # <<>>
        /\ line_marks[b][1] # call.mark[1]
        /\ defrag_table[b] = 64
        /\ ret = FALSE

\* C10: a line-mode sweep classifies the block by its marked lines: none ->
\* released, result true; 1..LINES-1 -> Reusable{marked lines}, pushed once
\* onto the reusable list, result false; LINES -> Unmarked, not pushed,
\* result false.
C10_SweepClassification ==
    [][(call'.op = "sweep" /\ ~block_only /\ ~aborted') =>
          LET b == call'.block
              marked == CountMarkedLines(line_marks[b], call'.mark[1])
          IN  /\ marked = 0 =>
                    /\ ret' = TRUE
                    /\ in_page_resource'[b]
                    /\ reusable_blocks' = reusable_blocks
              /\ (1 <= marked /\ marked <= LINES - 1) =>
                    /\ ret' = FALSE
                    /\ U8ToState(mark_table'[b]) =
                          [kind |-> "Reusable", unavailable_lines |-> marked]
                    /\ reusable_blocks' = Append(reusable_blocks, b)
              /\ marked = LINES =>
                    /\ ret' = FALSE
                    /\ U8ToState(mark_table'[b]) =
                          [kind |-> "Unmarked", unavailable_lines |-> 0]
                    /\ reusable_blocks' = reusable_blocks]_vars

\* C10 witness: a block with one marked line has been made Reusable{1} and
\* is the only entry of the reusable list.
C10_Witness ==
    \E b \in Blocks :
        /\ call.op = "sweep" /\ call.block = b /\ ~block_only /\ ~aborted
        /\ get_state(b) = [kind |-> "Reusable", unavailable_lines |-> 1]
        /\ reusable_blocks = <<b>>
        /\ ret = FALSE

\* ------------------------------------------------------------------ claims on the defrag byte
\* C11 as claimed: in every reachable state of any sequence of init,
\* set_state, set_as_defrag_source, set_holes, sweep and deinit operations, a
\* block in a Reusable state does not hold the defrag byte 255.
C11_Original ==
    \A b \in Blocks :
        get_state(b).kind = "Reusable" => defrag_table[b] # 255

\* C11 amended: init, deinit, sweep, set_holes(n) with n # 255, set_state of a
\* state other than Reusable, set_as_defrag_source(false) and, in a build with
\* debug assertions, set_as_defrag_source(true) keep every block from being
\* Reusable and a defrag source at once (marking a Reusable block fails the
\* assertion before the byte is written). A block becomes both only by
\* set_state(Reusable{k}) on a defrag source, by set_holes(255) on a Reusable
\* block, or by set_as_defrag_source(true) on a Reusable block in a build
\* without debug assertions.
C11_ReusableDefragOnlyByCallers ==
    [][\A b \in Blocks :
          (/\ get_state(b).kind = "Reusable" => defrag_table[b] # 255
           /\ U8ToState(mark_table'[b]).kind = "Reusable"
           /\ defrag_table'[b] = 255)
          => \/ /\ call'.op = "set_state" /\ call'.block = b
                /\ call'.state.kind = "Reusable"
                /\ defrag_table[b] = 255
             \/ /\ call'.op = "set_holes" /\ call'.block = b
                /\ call'.holes = 255
                /\ get_state(b).kind = "Reusable"
             \/ /\ call'.op = "set_as_defrag_source" /\ call'.block = b
                /\ call'.defrag
                /\ ~debug_assertions
                /\ get_state(b).kind = "Reusable"]_vars

\* C11 witness: in a build with debug assertions a Reusable block was handed
\* to set_as_defrag_source(true); the call failed and the byte is not 255.
C11_Witness ==
    \E b \in Blocks :
        /\ call.op = "set_as_defrag_source" /\ call.block = b /\ call.defrag
        /\ debug_assertions /\ aborted
        /\ get_state(b).kind = "Reusable"
        /\ defrag_table[b] # 255

C17_Original ==
    (call.op = "is_defrag_source" /\ defrag_table[call.block] # 255)
        => (~aborted /\ ret = FALSE)

\* C18 as claimed: get_holes on a block whose defrag/holes byte is 255 panics.
C18_Original ==
    (call.op = "get_holes" /\ defrag_table[call.block] = 255) => aborted

\* C18 amended: get_holes on a block whose defrag/holes byte is 255 leaves the
\* byte unchanged; in a build with debug assertions it panics, in a build
\* without them it returns 255.
C18_GetHolesOfDefragSource ==
    [][(call'.op = "get_holes" /\ defrag_table[call'.block] = 255) =>
          /\ defrag_table' = defrag_table
          /\ debug_assertions => (aborted' /\ ret_val'.kind = "none")
          /\ ~debug_assertions =>
                (~aborted' /\ ret_val'.kind = "usize" /\ ret_val'.n = 255)]_vars

\* C18 witness: get_holes has panicked on a defrag source.
C18_Witness ==
    /\ call.op = "get_holes" /\ debug_assertions /\ aborted
    /\ defrag_table[call.block] = 255
    /\ get_state(call.block).kind = "Marked"

\* ------------------------------------------------------------------ claims on the block lifecycle
\* C13: init(copy) leaves the block Marked when copy is true and Unmarked
\* otherwise, with the defrag/holes byte zero whatever it held; deinit leaves
\* it Unallocated; and the pages of a block go back to the page resource only
\* by a sweep that returns true, which leaves the block Unallocated.
C13_Lifecycle ==
    [][/\ call'.op = "init" =>
             /\ U8ToState(mark_table'[call'.block]) =
                   [kind |-> IF call'.copy THEN "Marked" ELSE "Unmarked",
                    unavailable_lines |-> 0]
             /\ defrag_table'[call'.block] = 0
       /\ call'.op = "deinit" =>
             U8ToState(mark_table'[call'.block]).kind = "Unallocated"
       /\ (call'.op = "sweep" /\ ret') =>
             /\ in_page_resource'[call'.block]
             /\ U8ToState(mark_table'[call'.block]).kind = "Unallocated"
       /\ \A b \in Blocks :
             (~in_page_resource[b] /\ in_page_resource'[b]) =>
                 /\ call'.op = "sweep" /\ call'.block = b /\ ret'
                 /\ mark_table'[b] = 0]_vars

\* C13 witness: a line-mode sweep has returned the pages of a block that was
\* a defrag source; the block is Unallocated.
C13_Witness ==
    \E b \in Blocks :
        /\ call.op = "sweep" /\ call.block = b /\ ~block_only /\ ret
        /\ in_page_resource[b]
        /\ defrag_table[b] = 255
        /\ get_state(b).kind = "Unallocated"

\* C20: a block-only sweep depends only on the block state: Unmarked ->
\* released, result true; Unallocated or Marked -> result false, state
\* unchanged; Reusable -> the sweep aborts. It never writes a Reusable state,
\* never pushes onto the reusable list, and leaves the histogram and the
\* defrag/holes byte alone.
C20_BlockOnlySweep ==
    [][(call'.op = "sweep" /\ block_only) =>
          LET b == call'.block
              state == U8ToState(mark_table[b])
          IN  /\ state.kind = "Unmarked" =>
                    /\ ret' /\ ~aborted'
                    /\ in_page_resource'[b]
                    /\ mark_table'[b] = 0
              /\ state.kind \in {"Unallocated", "Marked"} =>
                    /\ ~ret' /\ ~aborted'
                    /\ mark_table' = mark_table
                    /\ in_page_resource' = in_page_resource
              /\ state.kind = "Reusable" => (aborted' /\ mark_table' = mark_table)
              /\ mark_table'[b] # mark_table[b] =>
                    U8ToState(mark_table'[b]).kind # "Reusable"
              /\ reusable_blocks' = reusable_blocks
              /\ mark_histogram' = mark_histogram
              /\ defrag_table' = defrag_table]_vars

\* C20 witness: a block-only sweep has found a Marked block whose lines are
\* all unmarked and kept it.
C20_Witness ==
    \E b \in Blocks :
        /\ call.op = "sweep" /\ call.block = b /\ block_only /\ ~aborted
        /\ get_state(b).kind = "Marked"
        /\ ~in_page_resource[b]
        /\ ret = FALSE

\* C19: a line-mode sweep that keeps a block (at least one marked line, also a
\* fully marked block with no hole) adds the block's marked lines to the
\* histogram entry of its hole count and leaves every other entry alone, so
\* over any sequence of sweeps entry h grows by the sum of the marked lines of
\* the kept blocks with h holes; a block with no marked line is released and
\* leaves the histogram, the reusable list and its holes byte unchanged.
C19_HistogramAccumulates ==
    [][(call'.op = "sweep" /\ ~block_only /\ ~aborted') =>
          LET b == call'.block
              marked == CountMarkedLines(line_marks[b], call'.mark[1])
              runs == UnmarkedRuns(line_marks[b], call'.mark[1])
          IN  /\ DOMAIN mark_histogram' = 0..LINES
              /\ marked >= 1 =>
                    /\ ~ret'
                    /\ \A h \in 0..LINES :
                          mark_histogram'[h] =
                             mark_histogram[h] + (IF h = runs THEN marked ELSE 0)
              /\ marked = 0 =>
                    /\ ret'
                    /\ mark_histogram' = mark_histogram
                    /\ reusable_blocks' = reusable_blocks
                    /\ defrag_table' = defrag_table]_vars

\* C19 witness: after a sweep of a fully marked block and a sweep of a block
\* with every other line marked, entry 0 holds LINES and entry 64 holds 64.
C19_Witness ==
    /\ call.op = "sweep" /\ ~block_only /\ ~aborted
    /\ sweeps = 2
    /\ mark_histogram[0] = LINES
    /\ mark_histogram[64] = 64

\* ------------------------------------------------------------------ claims on the block list
\* The stack the first n logged operations leave behind, were they run one
\* after the other on a last-in first-out list.
RECURSIVE LifoReplay(_, _)
LifoReplay(log, n) ==
    IF n = 0 THEN <<>>
    ELSE LET before == LifoReplay(log, n - 1)
         IN  CASE log[n].op = "push" -> before \o <<log[n].block>>
               [] log[n].op = "pop" ->
                     IF before = <<>> THEN before
                     ELSE [i \in 1..(Len(before) - 1) |-> before[i]]
               [] log[n].op = "reset" -> <<>>

\* The logged operations after the last reset.
SinceReset(log) ==
    {n \in 1..Len(log) :
        \A m \in n..Len(log) : log[m].op # "reset"}

\* C14: the reusable-block list is a LIFO that stays consistent when several
\* threads push, pop, len, reset and get_blocks in any interleaving: the
\* operations take effect one at a time, in the order they take the lock; pop
\* returns the most recently pushed block not yet popped, None when there is
\* none; no pushed block is lost or popped twice; len is pushes minus
\* successful pops since the last reset; and the view get_blocks hands out
\* stays the queue while its guard is held.
C14_ListLifo ==
    /\ Cardinality({t \in Threads : list_pc[t].at # "idle"}) <= 1
    /\ reusable_blocks = LifoReplay(list_log, Len(list_log))
    /\ \A n \in 1..Len(list_log) :
          list_log[n].op = "pop" =>
             LET before == LifoReplay(list_log, n - 1)
             IN  list_log[n].block =
                    IF before = <<>> THEN "none" ELSE before[Len(before)]
    /\ call.op = "pop" =>
          /\ ret_val.kind \in {"Some", "None"}
          /\ ret_val.block = list_log[Len(list_log)].block
          /\ ret_val.kind = "None" <=> ret_val.block = "none"
    /\ LET pushes(b) == Cardinality({n \in SinceReset(list_log) :
                            list_log[n].op = "push" /\ list_log[n].block = b})
           pops(b) == Cardinality({n \in SinceReset(list_log) :
                            list_log[n].op = "pop" /\ list_log[n].block = b})
           held(b) == Cardinality({i \in 1..Len(reusable_blocks) :
                            reusable_blocks[i] = b})
       IN  /\ \A b \in ListBlocks : pushes(b) = pops(b) + held(b)
           /\ Len(reusable_blocks) =
                 Cardinality({n \in SinceReset(list_log) : list_log[n].op = "push"})
                 - Cardinality({n \in SinceReset(list_log) :
                                   list_log[n].op = "pop" /\ list_log[n].block # "none"})
           /\ call.op = "len" => ret_val.n = Len(reusable_blocks)
    /\ \A t \in Threads :
          list_pc[t].at = "viewing" =>
             (list_lock = t /\ list_pc[t].view = reusable_blocks)

\* C14 witness: t1 pushed b1, t2 pushed b2, and t1 popped b2; b1 is left.
C14_Witness ==
    /\ call.op = "pop" /\ call.thread = "t1"
    /\ list_log = <<[op |-> "push", block |-> "b1"],
                    [op |-> "push", block |-> "b2"],
                    [op |-> "pop", block |-> "b2"]>>
    /\ ret_val.kind = "Some" /\ ret_val.block = "b2"
    /\ reusable_blocks = <<"b1">>

\* C22: in a line-mode sweep that keeps a block, holes <= marked_lines + 1 and
\* holes <= LINES / 2 = 64, so the byte set_holes stores is the hole count
\* itself and never 254 or 255, the histogram index lies in 0..LINES, and the
\* marked lines stored as a Reusable count are at most LINES - 1 = 127: the
\* byte is the count itself and none of the encodings 0, 254, 255.
C22_SweepValueRanges ==
    [][(call'.op = "sweep" /\ ~block_only /\ ~aborted') =>
          LET b == call'.block
              scan == ScanLines(line_marks[b], call'.mark[1])
              marked_lines == scan.marked_lines
              holes == scan.holes
          IN  marked_lines >= 1 =>
                 /\ holes <= marked_lines + 1
                 /\ LINES \div 2 = 64
                 /\ holes <= LINES \div 2
                 /\ defrag_table'[b] = holes
                 /\ defrag_table'[b] \notin {254, 255}
                 /\ holes \in DOMAIN mark_histogram
                 /\ DOMAIN mark_histogram = 0..LINES
                 /\ marked_lines <= LINES
                 /\ marked_lines # LINES =>
                       /\ marked_lines <= 127
                       /\ mark_table'[b] = marked_lines
                       /\ mark_table'[b] \notin {0, 254, 255}
                       /\ U8ToState(mark_table'[b]) =
                             [kind |-> "Reusable",
                              unavailable_lines |-> marked_lines]]_vars

\* C22 witness: a kept block with 63 marked lines and 64 holes, one more hole
\* than marked lines and half the lines of a block.
C22_Witness ==
    \E b \in Blocks :
        /\ call.op = "sweep" /\ call.block = b /\ ~block_only /\ ~aborted
        /\ defrag_table[b] = 64
        /\ get_state(b) = [kind |-> "Reusable", unavailable_lines |-> 63]

\* ------------------------------------------------------------------ claims on concurrent sweeping
\* C23: while several workers sweep distinct blocks in line mode, the reusable
\* list being empty at the start and not popped meanwhile, every block in the
\* list has state Reusable{k} with 1 <= k <= LINES - 1 in every intermediate
\* state, because sweep stores the state before it pushes; no block is in the
\* list twice; and once every block is swept the list holds exactly the
\* blocks with 1..LINES-1 marked lines.
C23_ListedBlocksAreReusable ==
    /\ \A i \in 1..Len(reusable_blocks) :
          LET state == U8ToState(mark_table[reusable_blocks[i]])
          IN  /\ state.kind = "Reusable"
              /\ 1 <= state.unavailable_lines
              /\ state.unavailable_lines <= LINES - 1
    /\ \A i, j \in 1..Len(reusable_blocks) :
          reusable_blocks[i] = reusable_blocks[j] => i = j
    /\ ((\A w \in Threads : sweep_pc[w].at = "idle")
           /\ UNION {sweep_pc[w].swept : w \in Threads} = SweptBlocks)
          => {reusable_blocks[i] : i \in 1..Len(reusable_blocks)}
                = {b \in SweptBlocks :
                      LET marked == Cardinality({l \in 1..LINES :
                                                    line_marks[b][l] = 1})
                      IN  1 <= marked /\ marked <= LINES - 1}

\* C23 witness: one worker has pushed its block while the other has stored
\* Reusable{64} for its own and has not pushed it yet.
C23_Witness ==
    \E w \in Threads :
        /\ sweep_pc[w].at = "keep"
        /\ sweep_pc[w].marked_lines = 64
        /\ sweep_pc[w].step = 2
        /\ get_state(sweep_pc[w].block).kind = "Reusable"
        /\ Len(reusable_blocks) = 1
        /\ reusable_blocks[1] # sweep_pc[w].block

====
